---- MODULE Spec2Model ----
(***************************************************************************)
(* HFTBTree<Key, Value, ORDER> of src/btree.cpp: an arena-allocated B-tree *)
(* with top-down (preemptive) splitting.  Keys and values are integers.    *)
(* A node pointer is the byte offset of the node from the arena base;      *)
(* insert() is modelled statement group by statement group so that the     *)
(* states inside a call are visible; search() and findPos() are read-only  *)
(* and are operators over the current state.                               *)
(***************************************************************************)
EXTENDS Integers, Sequences, FiniteSets, TLC

\* ---- bounds of the model ------------------------------------------------
\* keys offered to insert() are 1..MaxKey
MaxKey == 5
\* number of insert() calls in one run
MaxInserts == 7
\* number of items the producer pushes (20 in the source)
NumItems == 3
\* number of insert() calls in a run that also calls search()
MaxSearchInserts == 6
\* number of insert() calls in a run in which an argument refers into the
\* tree, and how many of its calls have such an argument
MaxAliasInserts == 4
MaxAliased == 1
\* the arena capacity in bytes (1ull << 26 in the source), scaled down so
\* that a run can use the arena up
ARENA_SIZE == 384

\* the instantiations of the template parameter ORDER that are explored
Orders == {1, 2}
Keys == 1..MaxKey

\* nullptr
NULL == -1
\* content of a key/value slot that no statement has written yet
UNINIT == -1

VARIABLES
    ORDER,        \* template parameter, fixed at construction
    arena,        \* allocated nodes: byte offset -> Node
    arenaOffset,  \* bump pointer of the arena, in bytes
    root,         \* Node* root
    pc,           \* position of the running insert(), "idle" between calls
    status,       \* "ok", or "SIGSEGV" once the process has been killed
    k, v,         \* const Key& k, const Value& v of the running call: what
                  \* each reference is bound to
    r, s,         \* locals of insert()
    node, pos,    \* argument and local of insertNonFull()
    parent, idx,  \* arguments of splitChild()
    fullNode, newNode,  \* locals of splitChild()
    ret,          \* caller of the running splitChild()
    cnt,          \* history: number of insert(key, _) calls made so far
    passed,       \* history: the calls with an argument that was a reference
                  \* into the tree: the key and value passed (what the
                  \* references held at the call) and which argument it was
    atCall,       \* history: root, arena and arenaOffset when the latest
                  \* insert() was called
    atSplit,      \* history: the arena when the running splitChild() was
                  \* entered
    cur,          \* local of the running search()
    found,        \* history: key and result of the latest search() since
                  \* the latest insert()
    trail,        \* history: the nodes the latest call visited and split,
                  \* in order
    queue_,       \* SafeQueue::queue_, front first
    terminated_,  \* SafeQueue::terminated_
    mtx_,         \* SafeQueue::mtx_: the thread that holds it, or NoOwner
    waiting,      \* the threads blocked in cv_.wait
    tpc,          \* position of the producer, the consumers and main
    loop_i,       \* loop counter i of Producer::run
    message,      \* Consumer::run: what the latest pop() returned
    pushed,       \* history: the items given to push(), in order
    popped        \* history: the items removed by pop(), in order, with
                  \* the consumer that removed each

vars == <<ORDER, arena, arenaOffset, root, pc, status, k, v, r, s, node, pos,
          parent, idx, fullNode, newNode, ret, cnt, passed, atCall, atSplit, cur,
          found, trail, queue_, terminated_, mtx_, waiting, tpc, loop_i, message,
          pushed, popped>>

\* the variables of the producer/consumer program
queueVars == <<queue_, terminated_, mtx_, waiting, tpc, loop_i, message, pushed,
               popped>>

MAX_KEYS == ORDER * 2
MAX_CHILD == MAX_KEYS + 1

\* alignas(64)
CACHE_LINE == 64

RoundUp(n, a) == ((n + a - 1) \div a) * a

\* a variant of sizeof(Node) without the padding that alignas(64) adds
SizeofNodeUnpadded ==
    RoundUp(4 + MAX_KEYS * 4 + MAX_KEYS * 4, 8) + MAX_CHILD * 8

\* sizeof(Node) for Key = Value = int on an LP64 target: bool leaf at 0,
\* uint16_t keyCount at 2, keys at 4, vals, then the 8-byte aligned child
\* array, the whole padded to the 64-byte alignment of the struct
SizeofNode ==
    RoundUp(RoundUp(4 + MAX_KEYS * 4 + MAX_KEYS * 4, 8) + MAX_CHILD * 8,
            CACHE_LINE)

\* Node::Node(bool lf): leaf and keyCount set, child zeroed, keys and vals
\* left as they are in the arena
NewNode(lf) ==
    [leaf |-> lf, keyCount |-> 0,
     keys |-> [i \in 0..(MAX_KEYS - 1) |-> UNINIT],
     vals |-> [i \in 0..(MAX_KEYS - 1) |-> UNINIT],
     child |-> [i \in 0..(MAX_CHILD - 1) |-> NULL]]

\* a variant of full() that is off by one: keyCount > MAX_KEYS
fullOffByOne(n) == arena[n].keyCount > MAX_KEYS

\* Node::full()
full(n) == arena[n].keyCount = MAX_KEYS

\* the value a caller passes with its c-th insert of key when the value is
\* an object of its own: values are opaque to the tree (only copied), so each
\* call gets a value that identifies it.  Key and Value are both int: the
\* values of the first inserts lie among the keys, in the opposite order.
ValueOf(key, c) == (c - 1) * (MaxKey + 1) + (MaxKey + 1 - key)

\* const Key& k, const Value& v: a reference parameter is bound to an object
\* of the caller, whose value is kept in the reference, ...
Caller(x) == [at |-> "caller", node |-> NULL, pos |-> 0, val |-> x]

\* ... or to a value slot of a node, &node->vals[i], which is what search()
\* returns
Slot(n, i) == [at |-> "vals", node |-> n, pos |-> i, val |-> 0]

\* no call is running: the parameters do not exist
NoArg == [at |-> "none", node |-> NULL, pos |-> 0, val |-> 0]

\* reading through a reference while the nodes are as in a
Read(ref, a) == IF ref.at = "vals" THEN a[ref.node].vals[ref.pos] ELSE ref.val

TotalInserts == LET RECURSIVE Sum(_)
                    Sum(i) == IF i = 0 THEN 0 ELSE cnt[i] + Sum(i - 1)
                IN Sum(MaxKey)

\* ---- findPos ------------------------------------------------------------
RECURSIVE FindPosTail(_, _, _)
FindPosTail(nd, key, i) ==
    IF i < nd.keyCount
    THEN IF nd.keys[i] >= key THEN i ELSE FindPosTail(nd, key, i + 1)
    ELSE nd.keyCount

\* a variant of the unrolled loop that leaves out the test of keys[i + 3]
RECURSIVE FindPosUnrolledSkip(_, _, _)
FindPosUnrolledSkip(nd, key, i) ==
    IF i + 4 <= nd.keyCount
    THEN IF nd.keys[i] >= key THEN i
         ELSE IF nd.keys[i + 1] >= key THEN i + 1
         ELSE IF nd.keys[i + 2] >= key THEN i + 2
         ELSE FindPosUnrolledSkip(nd, key, i + 4)
    ELSE FindPosTail(nd, key, i)

RECURSIVE FindPosUnrolled(_, _, _)
FindPosUnrolled(nd, key, i) ==
    IF i + 4 <= nd.keyCount
    THEN IF nd.keys[i] >= key THEN i
         ELSE IF nd.keys[i + 1] >= key THEN i + 1
         ELSE IF nd.keys[i + 2] >= key THEN i + 2
         ELSE IF nd.keys[i + 3] >= key THEN i + 3
         ELSE FindPosUnrolled(nd, key, i + 4)
    ELSE FindPosTail(nd, key, i)

findPos(nd, key) == FindPosUnrolled(nd, key, 0)

\* the slots of nd.keys that findPos(nd, key) reads: the same two loops,
\* collecting the index of every keys[...] that is evaluated
RECURSIVE ReadsTail(_, _, _)
ReadsTail(nd, key, i) ==
    IF i < nd.keyCount
    THEN {i} \cup (IF nd.keys[i] >= key THEN {} ELSE ReadsTail(nd, key, i + 1))
    ELSE {}

RECURSIVE ReadsUnrolled(_, _, _)
ReadsUnrolled(nd, key, i) ==
    IF i + 4 <= nd.keyCount
    THEN IF nd.keys[i] >= key THEN {i}
         ELSE IF nd.keys[i + 1] >= key THEN {i, i + 1}
         ELSE IF nd.keys[i + 2] >= key THEN {i, i + 1, i + 2}
         ELSE IF nd.keys[i + 3] >= key THEN {i, i + 1, i + 2, i + 3}
         ELSE {i, i + 1, i + 2, i + 3} \cup ReadsUnrolled(nd, key, i + 4)
    ELSE ReadsTail(nd, key, i)

findPosReads(nd, key) == ReadsUnrolled(nd, key, 0)

\* ---- search -------------------------------------------------------------
\* the result of search(): a pointer to vals[pos] of a node, or nullptr;
\* following a null child pointer kills the process
Hit(n, p) == [res |-> "hit", node |-> n, pos |-> p]
Absent == [res |-> "nullptr", node |-> NULL, pos |-> 0]
Fault == [res |-> "SIGSEGV", node |-> NULL, pos |-> 0]

RECURSIVE SearchFrom(_, _)
SearchFrom(n, key) ==
    IF n \notin DOMAIN arena THEN Fault
    ELSE LET p == findPos(arena[n], key)
         IN IF p < arena[n].keyCount /\ arena[n].keys[p] = key
            THEN Hit(n, p)
            ELSE IF arena[n].leaf THEN Absent
            ELSE SearchFrom(arena[n].child[p], key)

search(key) == SearchFrom(root, key)

\* the value read through the pointer search() returned
Deref(h) == arena[h.node].vals[h.pos]

\* entries of the trail: insertNonFull() or the loop of search() entered on
\* node n; splitChild() entered for the full node n
Visit(n) == [op |-> "visit", node |-> n]
Split(n) == [op |-> "split", node |-> n]

\* no search() has returned since the latest insert()
NoResult == [key |-> 0, ptr |-> Absent]

\* ---- the producer/consumer program: threads and construction -------------
\* main() runs one producer thread and two consumer threads
Consumers == {"consumer1", "consumer2"}
Threads == {"producer"} \cup Consumers
NoOwner == "none"

\* "DATA_Block_" + std::to_string(n)
Message(n) == "DATA_Block_" \o ToString(n)
SYSTEM_STOPPED == "SYSTEM_STOPPED"
NoMessage == ""

\* make_shared<SafeQueue>() and the three std::thread constructors: the queue
\* empty and not terminated, the mutex free, every thread at the start of its
\* run(), main at its first join
QueueConstructed ==
    /\ queue_ = <<>>
    /\ terminated_ = FALSE
    /\ mtx_ = NoOwner
    /\ waiting = {}
    /\ tpc = [t \in Threads \cup {"main"} |->
                 IF t = "producer" THEN "loop"
                 ELSE IF t = "main" THEN "join_producer" ELSE "pop"]
    /\ loop_i = 0
    /\ message = [c \in Consumers |-> NoMessage]
    /\ pushed = <<>>
    /\ popped = <<>>

\* ---- construction -------------------------------------------------------
\* HFTBTree(): arenaOffset = 0; root = allocNode(true)
Init ==
    /\ ORDER \in Orders
    /\ arena = (0 :> NewNode(TRUE))
    /\ arenaOffset = SizeofNode
    /\ root = 0
    /\ pc = "idle"
    /\ status = "ok"
    /\ k = NoArg /\ v = NoArg
    /\ r = NULL /\ s = NULL /\ node = NULL /\ pos = 0
    /\ parent = NULL /\ idx = 0 /\ fullNode = NULL /\ newNode = NULL
    /\ ret = "none"
    /\ cnt = [key \in Keys |-> 0]
    /\ passed = {}
    /\ atCall = [root |-> 0, arena |-> (0 :> NewNode(TRUE)),
                 arenaOffset |-> SizeofNode]
    /\ atSplit = <<>>
    /\ cur = NULL
    /\ found = NoResult
    /\ trail = <<>>
    /\ QueueConstructed

\* ---- allocNode ----------------------------------------------------------
\* allocNode() has no capacity test.  A node placed past the end of the
\* aligned_alloc block is undefined behaviour: either the constructor's
\* stores land in mapped memory and the node is used like any other, or the
\* process is killed by the store.  Nothing between the two statements reads
\* arenaOffset, so a build may write it before the constructor's stores (as
\* the text has it) or after them: the process is killed with the offset
\* advanced, or with the offset as it was.
AllocOutcomes ==
    IF arenaOffset + SizeofNode > ARENA_SIZE
    THEN {"stored", "SIGSEGV", "SIGSEGV before the offset is written"}
    ELSE {"stored"}

\* ptr = arena + arenaOffset; arenaOffset += sizeof(Node); new(ptr) Node(lf)
allocNode(lf, out, next) ==
    /\ arenaOffset' = IF out = "SIGSEGV before the offset is written"
                      THEN arenaOffset
                      ELSE arenaOffset + SizeofNode
    /\ IF out = "stored"
       THEN /\ arena' = arena @@ (arenaOffset :> NewNode(lf))
            /\ status' = status
            /\ pc' = next
       ELSE /\ arena' = arena
            /\ status' = "SIGSEGV"
            /\ pc' = "killed"

\* ---- insert -------------------------------------------------------------
\* insert(k, v) with k bound to kref and v to vref:
\* Node* r = root; if (r->full()) ... else insertNonFull(r, k, v)
insert(kref, vref) ==
    /\ pc = "idle"
    /\ TotalInserts < MaxInserts
    /\ k' = kref
    /\ v' = vref
    /\ LET key == Read(kref, arena)
       IN /\ cnt' = [cnt EXCEPT ![key] = @ + 1]
          /\ passed' = IF kref.at = "vals" \/ vref.at = "vals"
                       THEN passed \cup {[key |-> key, c |-> cnt[key] + 1,
                                          val |-> Read(vref, arena),
                                          arg |-> IF kref.at = "vals"
                                                  THEN "k" ELSE "v"]}
                       ELSE passed
    /\ atCall' = [root |-> root, arena |-> arena, arenaOffset |-> arenaOffset]
    /\ r' = root
    /\ IF full(root)
       THEN pc' = "insert_alloc" /\ node' = node /\ trail' = <<>>
       ELSE pc' = "insertNonFull" /\ node' = root /\ trail' = <<Visit(root)>>
    /\ found' = NoResult
    /\ UNCHANGED <<ORDER, arena, arenaOffset, root, status, s, pos, parent,
                   idx, fullNode, newNode, ret, atSplit, cur>>
    /\ UNCHANGED queueVars

\* t.insert(key, value): both arguments are objects of the caller
InsertCall(key) == insert(Caller(key), Caller(ValueOf(key, cnt[key] + 1)))

\* t.insert(key, *t.search(y)): the value argument is the slot search(y)
\* returned
InsertValueFromTree(key, y) ==
    /\ pc = "idle"
    /\ search(y).res = "hit"
    /\ insert(Caller(key), Slot(search(y).node, search(y).pos))

\* t.insert(*t.search(y), value): the key argument is the slot search(y)
\* returned (the history counts the calls by the key passed, a key of Keys)
InsertKeyFromTree(y) ==
    /\ pc = "idle"
    /\ search(y).res = "hit"
    /\ Deref(search(y)) \in Keys
    /\ insert(Slot(search(y).node, search(y).pos),
              Caller(ValueOf(Deref(search(y)), cnt[Deref(search(y))] + 1)))

\* Node* s = allocNode(false)
InsertAllocRoot ==
    /\ pc = "insert_alloc"
    /\ \E out \in AllocOutcomes :
          /\ allocNode(FALSE, out, "insert_setroot")
          /\ s' = IF out = "stored" THEN arenaOffset ELSE s
    /\ UNCHANGED <<ORDER, root, k, v, r, node, pos, parent, idx, fullNode,
                   newNode, ret, cnt, passed, atCall,
                   atSplit, cur, found, trail>>
    /\ UNCHANGED queueVars

\* a variant of insert() that leaves out root = s
InsertSetRootSkipped ==
    /\ pc = "insert_setroot"
    /\ pc' = "insert_link"
    /\ UNCHANGED <<ORDER, arena, arenaOffset, root, status, k, v, r, s, node,
                   pos, parent, idx, fullNode, newNode, ret, cnt, passed, atCall,
                   atSplit, cur, found, trail>>
    /\ UNCHANGED queueVars

\* root = s
InsertSetRoot ==
    /\ pc = "insert_setroot"
    /\ root' = s
    /\ pc' = "insert_link"
    /\ UNCHANGED <<ORDER, arena, arenaOffset, status, k, v, r, s, node, pos,
                   parent, idx, fullNode, newNode, ret, cnt, passed, atCall,
                   atSplit, cur, found, trail>>
    /\ UNCHANGED queueVars

\* a variant of insert() that leaves out s->child[0] = r
InsertLinkChildSkipped ==
    /\ pc = "insert_link"
    /\ parent' = s
    /\ idx' = 0
    /\ ret' = "insert"
    /\ pc' = "split_alloc"
    /\ UNCHANGED <<ORDER, arena, arenaOffset, root, status, k, v, r, s, node,
                   pos, fullNode, newNode, cnt, passed, atCall,
                   atSplit, cur, found, trail>>
    /\ UNCHANGED queueVars

\* s->child[0] = r; splitChild(s, 0)
InsertLinkChild ==
    /\ pc = "insert_link"
    /\ arena' = [arena EXCEPT ![s].child[0] = r]
    /\ parent' = s
    /\ idx' = 0
    /\ ret' = "insert"
    /\ pc' = "split_alloc"
    /\ UNCHANGED <<ORDER, arenaOffset, root, status, k, v, r, s, node, pos,
                   fullNode, newNode, cnt, passed, atCall,
                   atSplit, cur, found, trail>>
    /\ UNCHANGED queueVars

\* ---- splitChild ---------------------------------------------------------
\* a variant of mid that rounds the other way: (MAX_KEYS - 1) / 2
midLow == (MAX_KEYS - 1) \div 2

\* const int mid = MAX_KEYS / 2
mid == MAX_KEYS \div 2

\* a variant of the count that gives the new node one entry less
RightCountLess == MAX_KEYS - mid - 2

\* MAX_KEYS - mid - 1, the number of entries that go to the new node
RightCount == MAX_KEYS - mid - 1

\* a variant of splitChild() that makes every new node a leaf
SiblingLeafAlways(fn) == TRUE

\* the leaf flag splitChild gives the new node: fullNode->leaf
SiblingLeaf(fn) == arena[fn].leaf

\* Node* fullNode = parent->child[idx]; Node* newNode = allocNode(fullNode->leaf)
SplitAlloc ==
    /\ pc = "split_alloc"
    /\ LET fn == arena[parent].child[idx]
       IN IF fn \notin DOMAIN arena
          THEN /\ status' = "SIGSEGV"
               /\ pc' = "killed"
               /\ UNCHANGED <<arena, arenaOffset, fullNode, newNode, trail>>
          ELSE /\ fullNode' = fn
               /\ trail' = Append(trail, Split(fn))
               /\ \E out \in AllocOutcomes :
                     /\ allocNode(SiblingLeaf(fn), out, "split_copy")
                     /\ newNode' = IF out = "stored" THEN arenaOffset
                                   ELSE newNode
    /\ atSplit' = arena
    /\ UNCHANGED <<ORDER, root, k, v, r, s, node, pos, parent, idx, ret, cnt, passed,
                   atCall, cur, found>>
    /\ UNCHANGED queueVars

\* a variant of memcpy whose source starts one element early
memcpyFromBelow(dst, src, from, n) ==
    [i \in DOMAIN dst |-> IF i < n THEN src[from - 1 + i] ELSE dst[i]]

\* memcpy(dst, src + from, n * sizeof(element))
memcpy(dst, src, from, n) ==
    [i \in DOMAIN dst |-> IF i < n THEN src[from + i] ELSE dst[i]]

\* newNode->keyCount = MAX_KEYS - mid - 1 and the three memcpy calls
SplitCopy ==
    /\ pc = "split_copy"
    /\ LET n == RightCount
           fn == arena[fullNode]
           nn == arena[newNode]
       IN arena' = [arena EXCEPT ![newNode] =
              [leaf |-> nn.leaf,
               keyCount |-> n,
               keys |-> memcpy(nn.keys, fn.keys, mid + 1, n),
               vals |-> memcpy(nn.vals, fn.vals, mid + 1, n),
               child |-> IF ~fn.leaf
                         THEN memcpy(nn.child, fn.child, mid + 1, n + 1)
                         ELSE nn.child]]
    /\ pc' = "split_trunc"
    /\ UNCHANGED <<ORDER, arenaOffset, root, status, k, v, r, s, node, pos,
                   parent, idx, fullNode, newNode, ret, cnt, passed, atCall,
                   atSplit, cur, found, trail>>
    /\ UNCHANGED queueVars

\* fullNode->keyCount = mid
SplitTruncate ==
    /\ pc = "split_trunc"
    /\ arena' = [arena EXCEPT ![fullNode].keyCount = mid]
    /\ pc' = "split_shift"
    /\ UNCHANGED <<ORDER, arenaOffset, root, status, k, v, r, s, node, pos,
                   parent, idx, fullNode, newNode, ret, cnt, passed, atCall,
                   atSplit, cur, found, trail>>
    /\ UNCHANGED queueVars

\* a variant of the shift loop that moves the keys and values and leaves the
\* child pointers where they are
RECURSIVE ShiftParentKeysOnly(_, _, _)
ShiftParentKeysOnly(p, i, stop) ==
    IF i > stop
    THEN ShiftParentKeysOnly([p EXCEPT !.keys[i] = p.keys[i - 1],
                                       !.vals[i] = p.vals[i - 1]], i - 1, stop)
    ELSE p

\* for (int i = parent->keyCount; i > idx; --i) { child[i+1] = child[i];
\*     keys[i] = keys[i-1]; vals[i] = vals[i-1]; }
RECURSIVE ShiftParent(_, _, _)
ShiftParent(p, i, stop) ==
    IF i > stop
    THEN ShiftParent([p EXCEPT !.child[i + 1] = p.child[i],
                               !.keys[i] = p.keys[i - 1],
                               !.vals[i] = p.vals[i - 1]], i - 1, stop)
    ELSE p

SplitShift ==
    /\ pc = "split_shift"
    /\ arena' = [arena EXCEPT ![parent] =
                    ShiftParent(@, arena[parent].keyCount, idx)]
    /\ pc' = "split_link"
    /\ UNCHANGED <<ORDER, arenaOffset, root, status, k, v, r, s, node, pos,
                   parent, idx, fullNode, newNode, ret, cnt, passed, atCall,
                   atSplit, cur, found, trail>>
    /\ UNCHANGED queueVars

\* parent->child[idx+1] = newNode; parent->keys[idx] = fullNode->keys[mid];
\* parent->vals[idx] = fullNode->vals[mid]; parent->keyCount++; return
SplitLink ==
    /\ pc = "split_link"
    /\ arena' = [arena EXCEPT ![parent].child[idx + 1] = newNode,
                              ![parent].keys[idx] = arena[fullNode].keys[mid],
                              ![parent].vals[idx] = arena[fullNode].vals[mid],
                              ![parent].keyCount = @ + 1]
    /\ parent' = NULL /\ idx' = 0 /\ fullNode' = NULL /\ newNode' = NULL
    /\ ret' = "none"
    /\ IF ret = "insert"
       THEN pc' = "insertNonFull" /\ node' = s
                                 /\ trail' = Append(trail, Visit(s))
       ELSE pc' = "split_return" /\ node' = node /\ trail' = trail
    /\ atSplit' = <<>>
    /\ UNCHANGED <<ORDER, arenaOffset, root, status, k, v, r, s, pos, cnt, passed,
                   atCall, cur, found>>
    /\ UNCHANGED queueVars

\* ---- insertNonFull ------------------------------------------------------
\* reading through a reference while node n is as in nd and every other node
\* as in arena
ReadIn(ref, n, nd) ==
    IF ref.at = "vals" /\ ref.node = n THEN nd.vals[ref.pos]
    ELSE Read(ref, arena)

\* a variant of the shift loop that also moves the entries equal to k
RECURSIVE ShiftLeafGeq(_, _, _, _)
ShiftLeafGeq(nd, i, ref, n) ==
    IF i >= 0 /\ nd.keys[i] >= ReadIn(ref, n, nd)
    THEN ShiftLeafGeq([nd EXCEPT !.keys[i + 1] = nd.keys[i],
                                 !.vals[i + 1] = nd.vals[i]], i - 1, ref, n)
    ELSE [nd |-> nd, i |-> i]

\* while (i >= 0 && node->keys[i] > k) { keys[i+1] = keys[i];
\*     vals[i+1] = vals[i]; i--; }
\* with k read through its reference in every test, nd being node n as the
\* rounds so far left it
RECURSIVE ShiftLeaf(_, _, _, _)
ShiftLeaf(nd, i, ref, n) ==
    IF i >= 0 /\ nd.keys[i] > ReadIn(ref, n, nd)
    THEN ShiftLeaf([nd EXCEPT !.keys[i + 1] = nd.keys[i],
                              !.vals[i + 1] = nd.vals[i]], i - 1, ref, n)
    ELSE [nd |-> nd, i |-> i]

\* the leaf branch: shift, then keys[i + 1] = k, then vals[i + 1] = v, each
\* read through its reference at that point, keyCount++; insert returns
InsertLeaf ==
    /\ pc = "insertNonFull"
    /\ arena[node].leaf
    /\ LET sh == ShiftLeaf(arena[node], arena[node].keyCount - 1, k, node)
           keyed == [sh.nd EXCEPT !.keys[sh.i + 1] = ReadIn(k, node, sh.nd)]
       IN arena' = [arena EXCEPT ![node] =
              [keyed EXCEPT !.vals[sh.i + 1] = ReadIn(v, node, keyed),
                            !.keyCount = @ + 1]]
    /\ pc' = "idle"
    /\ k' = NoArg /\ v' = NoArg
    /\ r' = NULL /\ s' = NULL /\ node' = NULL /\ pos' = 0
    /\ UNCHANGED <<ORDER, arenaOffset, root, status, parent, idx, fullNode,
                   newNode, ret, cnt, passed, atCall,
                   atSplit, cur, found, trail>>
    /\ UNCHANGED queueVars

\* the internal branch: pos = findPos(node, k); if (node->child[pos]->full())
\* splitChild(node, pos) ...; else insertNonFull(node->child[pos], k, v)
InsertDescend ==
    /\ pc = "insertNonFull"
    /\ ~arena[node].leaf
    /\ LET p == findPos(arena[node], Read(k, arena))
           c == arena[node].child[p]
       IN IF c \notin DOMAIN arena
          THEN /\ status' = "SIGSEGV"
               /\ pc' = "killed"
               /\ UNCHANGED <<node, pos, parent, idx, ret, trail>>
          ELSE /\ status' = status
               /\ IF full(c)
                  THEN /\ pos' = p
                       /\ parent' = node
                       /\ idx' = p
                       /\ ret' = "insertNonFull"
                       /\ pc' = "split_alloc"
                       /\ node' = node
                       /\ trail' = trail
                  ELSE /\ node' = c
                       /\ pc' = "insertNonFull"
                       /\ trail' = Append(trail, Visit(c))
                       /\ UNCHANGED <<pos, parent, idx, ret>>
    /\ UNCHANGED <<ORDER, arena, arenaOffset, root, k, v, r, s, fullNode,
                   newNode, cnt, passed, atCall,
                   atSplit, cur, found>>
    /\ UNCHANGED queueVars

\* if (node->keys[pos] < k) pos++
AfterSplitPos(nd, p, key) == IF nd.keys[p] < key THEN p + 1 ELSE p

\* a variant of insertNonFull() that, after the split, runs again on the
\* same node instead of the child
InsertAfterSplitAgain ==
    /\ pc = "split_return"
    /\ node' = node
    /\ trail' = Append(trail, Visit(node'))
    /\ pos' = 0
    /\ pc' = "insertNonFull"
    /\ UNCHANGED <<ORDER, arena, arenaOffset, root, status, k, v, r, s,
                   parent, idx, fullNode, newNode, ret, cnt, passed, atCall,
                   atSplit, cur, found>>
    /\ UNCHANGED queueVars

\* after splitChild(node, pos): if (node->keys[pos] < k) pos++;
\* insertNonFull(node->child[pos], k, v)
InsertAfterSplit ==
    /\ pc = "split_return"
    /\ node' = arena[node].child[AfterSplitPos(arena[node], pos, Read(k, arena))]
    /\ trail' = Append(trail, Visit(node'))
    /\ pos' = 0
    /\ pc' = "insertNonFull"
    /\ UNCHANGED <<ORDER, arena, arenaOffset, root, status, k, v, r, s,
                   parent, idx, fullNode, newNode, ret, cnt, passed, atCall,
                   atSplit, cur, found>>
    /\ UNCHANGED queueVars

\* a call may pass a reference into the tree
AliasedCallAllowed ==
    TotalInserts < MaxAliasInserts /\ Cardinality(passed) < MaxAliased

Next ==
    \/ \E key \in Keys :
          (passed = {} \/ TotalInserts < MaxAliasInserts) /\ InsertCall(key)
    \/ \E key, y \in Keys : AliasedCallAllowed /\ InsertValueFromTree(key, y)
    \/ \E y \in Keys : AliasedCallAllowed /\ InsertKeyFromTree(y)
    \/ InsertAllocRoot
    \/ InsertSetRoot
    \/ InsertLinkChild
    \/ SplitAlloc
    \/ SplitCopy
    \/ SplitTruncate
    \/ SplitShift
    \/ SplitLink
    \/ InsertLeaf
    \/ InsertDescend
    \/ InsertAfterSplit

Spec == Init /\ [][Next]_vars

\* ---- search, step by step --------------------------------------------------
\* Value* search(const Key& k): Node* cur = root
SearchCall(key) ==
    /\ pc = "idle"
    /\ k' = Caller(key)
    /\ cur' = root
    /\ pc' = "search"
    /\ found' = IF found.key = key THEN found ELSE NoResult
    /\ trail' = <<Visit(root)>>
    /\ UNCHANGED <<ORDER, arena, arenaOffset, root, status, v, r, s, node, pos,
                   parent, idx, fullNode, newNode, ret, cnt, passed, atCall, atSplit>>
    /\ UNCHANGED queueVars

\* a variant of the loop body that keeps the node it ends on as the root
SearchStepCaching ==
    /\ pc = "search"
    /\ cur \in DOMAIN arena
    /\ LET p == findPos(arena[cur], Read(k, arena))
       IN IF p < arena[cur].keyCount /\ arena[cur].keys[p] = Read(k, arena)
          THEN /\ found' = [key |-> Read(k, arena), ptr |-> Hit(cur, p)]
               /\ pc' = "idle" /\ k' = NoArg /\ cur' = NULL
               /\ root' = cur
               /\ UNCHANGED <<status, trail>>
          ELSE IF arena[cur].leaf
          THEN /\ found' = [key |-> Read(k, arena), ptr |-> Absent]
               /\ pc' = "idle" /\ k' = NoArg /\ cur' = NULL
               /\ root' = cur
               /\ UNCHANGED <<status, trail>>
          ELSE /\ cur' = arena[cur].child[p]
               /\ trail' = Append(trail, Visit(cur'))
               /\ UNCHANGED <<pc, k, found, status, root>>
    /\ UNCHANGED <<ORDER, arena, arenaOffset, v, r, s, node, pos, parent,
                   idx, fullNode, newNode, ret, cnt, passed, atCall, atSplit>>
    /\ UNCHANGED queueVars

\* one round of while (true) { int pos = findPos(cur, k);
\*   if (pos < cur->keyCount && cur->keys[pos] == k) return &cur->vals[pos];
\*   if (cur->leaf) return nullptr; cur = cur->child[pos]; }
SearchStep ==
    /\ pc = "search"
    /\ IF cur \notin DOMAIN arena
       THEN /\ status' = "SIGSEGV"
            /\ pc' = "killed"
            /\ UNCHANGED <<k, cur, found, trail>>
       ELSE LET p == findPos(arena[cur], Read(k, arena))
            IN IF p < arena[cur].keyCount /\ arena[cur].keys[p] = Read(k, arena)
               THEN /\ found' = [key |-> Read(k, arena), ptr |-> Hit(cur, p)]
                    /\ pc' = "idle" /\ k' = NoArg /\ cur' = NULL
                    /\ UNCHANGED <<status, trail>>
               ELSE IF arena[cur].leaf
               THEN /\ found' = [key |-> Read(k, arena), ptr |-> Absent]
                    /\ pc' = "idle" /\ k' = NoArg /\ cur' = NULL
                    /\ UNCHANGED <<status, trail>>
               ELSE /\ cur' = arena[cur].child[p]
                    /\ trail' = Append(trail, Visit(cur'))
                    /\ UNCHANGED <<pc, k, found, status>>
    /\ UNCHANGED <<ORDER, arena, arenaOffset, root, v, r, s, node, pos, parent,
                   idx, fullNode, newNode, ret, cnt, passed, atCall, atSplit>>
    /\ UNCHANGED queueVars

\* the steps inside a call of insert()
InsertStep ==
    \/ InsertAllocRoot
    \/ InsertSetRoot
    \/ InsertLinkChild
    \/ SplitAlloc
    \/ SplitCopy
    \/ SplitTruncate
    \/ SplitShift
    \/ SplitLink
    \/ InsertLeaf
    \/ InsertDescend
    \/ InsertAfterSplit

\* calls of insert() and search() in any order, one at a time
NextSearch ==
    \/ \E key \in Keys : TotalInserts < MaxSearchInserts /\ InsertCall(key)
    \/ InsertStep
    \/ \E key \in Keys : SearchCall(key)
    \/ SearchStep

SpecSearch == Init /\ [][NextSearch]_vars

\* a call that has started keeps running: the thread is never starved
FairSpecSearch == SpecSearch /\ WF_vars(InsertStep) /\ WF_vars(SearchStep)

\* ---- the producer/consumer program ----------------------------------------
\* the variables of the B-tree, which this program does not have
btreeVars == <<ORDER, arena, arenaOffset, root, pc, status, k, v, r, s, node,
               pos, parent, idx, fullNode, newNode, ret, cnt, passed, atCall, atSplit,
               cur, found, trail>>

\* main() of the producer/consumer program constructs no HFTBTree
NoBTree ==
    /\ ORDER = 0
    /\ arena = <<>>
    /\ arenaOffset = 0
    /\ root = NULL
    /\ pc = "none"
    /\ status = "ok"
    /\ k = NoArg /\ v = NoArg
    /\ r = NULL /\ s = NULL /\ node = NULL /\ pos = 0
    /\ parent = NULL /\ idx = 0 /\ fullNode = NULL /\ newNode = NULL
    /\ ret = "none"
    /\ cnt = [key \in Keys |-> 0]
    /\ passed = {}
    /\ atCall = <<>>
    /\ atSplit = <<>>
    /\ cur = NULL
    /\ found = NoResult
    /\ trail = <<>>

InitQueue == NoBTree /\ QueueConstructed

\* what front() of an empty std::queue yields when it does not fault
GARBAGE == "garbage"

\* for (int i = 0; i < 20; i++) ... ; queue_->terminate()
ProducerLoop ==
    /\ tpc["producer"] = "loop"
    /\ tpc' = [tpc EXCEPT !["producer"] =
                  IF loop_i < NumItems THEN "push" ELSE "terminate"]
    /\ UNCHANGED <<queue_, terminated_, mtx_, waiting, loop_i, message, pushed,
                   popped>>
    /\ UNCHANGED btreeVars

\* push(): std::lock_guard<std::mutex> lock(mtx_)
PushLock ==
    /\ tpc["producer"] = "push"
    /\ mtx_ = NoOwner
    /\ mtx_' = "producer"
    /\ tpc' = [tpc EXCEPT !["producer"] = "push_locked"]
    /\ UNCHANGED <<queue_, terminated_, waiting, loop_i, message, pushed,
                   popped>>
    /\ UNCHANGED btreeVars

\* a variant of push() without cv_.notify_one()
PushBodySilent ==
    /\ tpc["producer"] = "push_locked"
    /\ queue_' = Append(queue_, Message(loop_i))
    /\ pushed' = Append(pushed, Message(loop_i))
    /\ mtx_' = NoOwner
    /\ loop_i' = loop_i + 1
    /\ tpc' = [tpc EXCEPT !["producer"] = "loop"]
    /\ UNCHANGED <<terminated_, waiting, message, popped>>
    /\ UNCHANGED btreeVars

\* queue_.push(item); cv_.notify_one(); the lock released; then i++
PushBody ==
    /\ tpc["producer"] = "push_locked"
    /\ queue_' = Append(queue_, Message(loop_i))
    /\ pushed' = Append(pushed, Message(loop_i))
    /\ IF waiting = {} THEN waiting' = waiting
       ELSE \E w \in waiting : waiting' = waiting \ {w}
    /\ mtx_' = NoOwner
    /\ loop_i' = loop_i + 1
    /\ tpc' = [tpc EXCEPT !["producer"] = "loop"]
    /\ UNCHANGED <<terminated_, message, popped>>
    /\ UNCHANGED btreeVars

\* terminate(): std::lock_guard<std::mutex> lock(mtx_)
TerminateLock ==
    /\ tpc["producer"] = "terminate"
    /\ mtx_ = NoOwner
    /\ mtx_' = "producer"
    /\ tpc' = [tpc EXCEPT !["producer"] = "terminate_locked"]
    /\ UNCHANGED <<queue_, terminated_, waiting, loop_i, message, pushed,
                   popped>>
    /\ UNCHANGED btreeVars

\* a variant of terminate() that calls cv_.notify_one()
TerminateBodyNotifyOne ==
    /\ tpc["producer"] = "terminate_locked"
    /\ terminated_' = TRUE
    /\ IF waiting = {} THEN waiting' = waiting
       ELSE \E w \in waiting : waiting' = waiting \ {w}
    /\ mtx_' = NoOwner
    /\ tpc' = [tpc EXCEPT !["producer"] = "done"]
    /\ UNCHANGED <<queue_, loop_i, message, pushed, popped>>
    /\ UNCHANGED btreeVars

\* terminated_ = true; cv_.notify_all(); the lock released; run() returns
TerminateBody ==
    /\ tpc["producer"] = "terminate_locked"
    /\ terminated_' = TRUE
    /\ waiting' = {}
    /\ mtx_' = NoOwner
    /\ tpc' = [tpc EXCEPT !["producer"] = "done"]
    /\ UNCHANGED <<queue_, loop_i, message, pushed, popped>>
    /\ UNCHANGED btreeVars

\* pop(): std::unique_lock<std::mutex> lock(mtx_)
PopLock(c) ==
    /\ tpc[c] = "pop"
    /\ mtx_ = NoOwner
    /\ mtx_' = c
    /\ tpc' = [tpc EXCEPT ![c] = "pop_locked"]
    /\ UNCHANGED <<queue_, terminated_, waiting, loop_i, message, pushed,
                   popped>>
    /\ UNCHANGED btreeVars

\* cv_.wait(lock, pred), with the lock held: while (!pred()) wait(lock);
\* the predicate is !queue_.empty() || terminated_; wait(lock) releases the
\* lock and blocks
PopWait(c) ==
    /\ tpc[c] = "pop_locked"
    /\ IF queue_ # <<>> \/ terminated_
       THEN /\ tpc' = [tpc EXCEPT ![c] = "pop_take"]
            /\ UNCHANGED <<mtx_, waiting>>
       ELSE /\ waiting' = waiting \cup {c}
            /\ mtx_' = NoOwner
            /\ tpc' = [tpc EXCEPT ![c] = "blocked"]
    /\ UNCHANGED <<queue_, terminated_, loop_i, message, pushed, popped>>
    /\ UNCHANGED btreeVars

\* a blocked thread may wake without a notify (std::condition_variable::wait)
SpuriousWake(c) ==
    /\ c \in waiting
    /\ waiting' = waiting \ {c}
    /\ UNCHANGED <<queue_, terminated_, mtx_, tpc, loop_i, message, pushed,
                   popped>>
    /\ UNCHANGED btreeVars

\* wait(lock) returning: the woken thread takes the lock again and the
\* predicate is tested again
PopRelock(c) ==
    /\ tpc[c] = "blocked"
    /\ c \notin waiting
    /\ mtx_ = NoOwner
    /\ mtx_' = c
    /\ tpc' = [tpc EXCEPT ![c] = "pop_locked"]
    /\ UNCHANGED <<queue_, terminated_, waiting, loop_i, message, pushed,
                   popped>>
    /\ UNCHANGED btreeVars

\* a variant of pop() that returns queue_.front() and leaves out queue_.pop()
PopTakeKeep(c) ==
    /\ tpc[c] = "pop_take"
    /\ IF terminated_ /\ queue_ = <<>>
       THEN /\ message' = [message EXCEPT ![c] = SYSTEM_STOPPED]
            /\ UNCHANGED popped
       ELSE /\ queue_ # <<>>
            /\ message' = [message EXCEPT ![c] = Head(queue_)]
            /\ popped' = Append(popped, [by |-> c, item |-> Head(queue_)])
    /\ mtx_' = NoOwner
    /\ tpc' = [tpc EXCEPT ![c] = "check"]
    /\ UNCHANGED <<queue_, terminated_, waiting, loop_i, pushed>>
    /\ UNCHANGED btreeVars

\* if (terminated_ && queue_.empty()) return "SYSTEM_STOPPED";
\* item = queue_.front(); queue_.pop(); return item; the lock released.
\* front() and pop() of an empty queue are undefined: a garbage string is
\* returned or the process is killed
PopTake(c) ==
    /\ tpc[c] = "pop_take"
    /\ IF terminated_ /\ queue_ = <<>>
       THEN /\ message' = [message EXCEPT ![c] = SYSTEM_STOPPED]
            /\ mtx_' = NoOwner
            /\ tpc' = [tpc EXCEPT ![c] = "check"]
            /\ UNCHANGED <<queue_, popped>>
       ELSE IF queue_ # <<>>
       THEN /\ message' = [message EXCEPT ![c] = Head(queue_)]
            /\ queue_' = Tail(queue_)
            /\ popped' = Append(popped, [by |-> c, item |-> Head(queue_)])
            /\ mtx_' = NoOwner
            /\ tpc' = [tpc EXCEPT ![c] = "check"]
       ELSE \E out \in {"garbage", "SIGSEGV"} :
               IF out = "garbage"
               THEN /\ message' = [message EXCEPT ![c] = GARBAGE]
                    /\ popped' = Append(popped, [by |-> c, item |-> GARBAGE])
                    /\ mtx_' = NoOwner
                    /\ tpc' = [tpc EXCEPT ![c] = "check"]
                    /\ UNCHANGED queue_
               ELSE /\ tpc' = [t \in DOMAIN tpc |-> "killed"]
                    /\ UNCHANGED <<message, popped, mtx_, queue_>>
    /\ UNCHANGED <<terminated_, waiting, loop_i, pushed>>
    /\ UNCHANGED btreeVars

\* if (message == "SYSTEM_STOPPED") break; else process and loop
ConsumerCheck(c) ==
    /\ tpc[c] = "check"
    /\ tpc' = [tpc EXCEPT ![c] =
                  IF message[c] = SYSTEM_STOPPED THEN "done" ELSE "pop"]
    /\ UNCHANGED <<queue_, terminated_, mtx_, waiting, loop_i, message, pushed,
                   popped>>
    /\ UNCHANGED btreeVars

\* the thread main() joins at each of its positions, and where it goes next
JoinOf == [join_producer |-> "producer", join_consumer1 |-> "consumer1",
           join_consumer2 |-> "consumer2"]
AfterJoin == [join_producer |-> "join_consumer1",
              join_consumer1 |-> "join_consumer2",
              join_consumer2 |-> "finished"]

\* producer_thread.join(); consumer_thread1.join(); consumer_thread2.join()
MainJoin ==
    /\ tpc["main"] \in DOMAIN JoinOf
    /\ tpc[JoinOf[tpc["main"]]] = "done"
    /\ tpc' = [tpc EXCEPT !["main"] = AfterJoin[tpc["main"]]]
    /\ UNCHANGED <<queue_, terminated_, mtx_, waiting, loop_i, message, pushed,
                   popped>>
    /\ UNCHANGED btreeVars

\* the steps of a thread that do not wait for the mutex
ProducerStep == ProducerLoop \/ PushBody \/ TerminateBody
ConsumerStep(c) == PopWait(c) \/ PopTake(c) \/ ConsumerCheck(c)

NextQueue ==
    \/ ProducerLoop
    \/ PushLock
    \/ PushBody
    \/ TerminateLock
    \/ TerminateBody
    \/ \E c \in Consumers : PopLock(c)
    \/ \E c \in Consumers : PopWait(c)
    \/ \E c \in Consumers : SpuriousWake(c)
    \/ \E c \in Consumers : PopRelock(c)
    \/ \E c \in Consumers : PopTake(c)
    \/ \E c \in Consumers : ConsumerCheck(c)
    \/ MainJoin

SpecQueue == InitQueue /\ [][NextQueue]_vars

\* fair scheduling: a thread that can run does run, and a thread that waits
\* for the mutex gets it if it is free again and again; spurious wakeups are
\* not owed to anyone
FairSpecQueue ==
    /\ SpecQueue
    /\ WF_vars(ProducerStep)
    /\ SF_vars(PushLock)
    /\ SF_vars(TerminateLock)
    /\ \A c \in Consumers :
          /\ WF_vars(ConsumerStep(c))
          /\ SF_vars(PopLock(c))
          /\ SF_vars(PopRelock(c))
    /\ WF_vars(MainJoin)

\* ---- the tree as seen from the root --------------------------------------
\* the child pointers of n that are in use: slots 0..keyCount of an internal
\* node
Children(n) ==
    IF arena[n].leaf THEN {}
    ELSE {arena[n].child[i] : i \in 0..arena[n].keyCount}

RECURSIVE ReachFrom(_)
ReachFrom(S) ==
    LET T == S \cup ((UNION {Children(n) : n \in S}) \cap DOMAIN arena)
    IN IF T = S THEN S ELSE ReachFrom(T)

\* the nodes reachable from the root
Reachable == ReachFrom({root})

\* the value the c-th insert of key passed
PassedValue(key, c) ==
    IF \E p \in passed : p.key = key /\ p.c = c
    THEN (CHOOSE p \in passed : p.key = key /\ p.c = c).val
    ELSE ValueOf(key, c)

\* the values the calls made so far passed with key
InsertedValues(key) == {PassedValue(key, c) : c \in 1..cnt[key]}

\* ---- C1 -------------------------------------------------------------------
\* C1 as claimed: between calls, search(k) returns the value inserted with k
\* for every key k that was inserted once (in particular for every key of a
\* sequence of inserts with pairwise distinct keys), wherever shifts and splits
\* moved it.  A call whose value argument is a slot of the leaf it shifts
\* stores what the shift left in that slot.
LookupCompleteness ==
    pc = "idle" =>
        \A key \in Keys :
            cnt[key] = 1 =>
                /\ search(key).res = "hit"
                /\ Deref(search(key)) = PassedValue(key, 1)

\* ---- C2 -------------------------------------------------------------------
\* C2 as claimed: once key k has been inserted with value a and later with
\* value b, search(k) returns a.
DuplicateReturnsEarliest ==
    pc = "idle" =>
        \A key \in Keys :
            cnt[key] >= 2 =>
                /\ search(key).res = "hit"
                /\ Deref(search(key)) = PassedValue(key, 1)

\* the proper ancestors of node n
Ancestors(n) == {m \in Reachable : m # n /\ n \in ReachFrom({m})}

\* the entry of node n that a search for key stops at, if any: the first one
\* whose key is not below key
StopsAt(n, key) == {i \in 0..(arena[n].keyCount - 1) :
                       /\ arena[n].keys[i] >= key
                       /\ \A j \in 0..(i - 1) : arena[n].keys[j] < key}

\* a split has moved an entry with this key up: an internal node holds it
Promoted(key) ==
    \E n \in Reachable :
        /\ ~arena[n].leaf
        /\ \E i \in 0..(arena[n].keyCount - 1) : arena[n].keys[i] = key

\* the entries with this key are the pairs passed with it: no call had a
\* key argument that referred into the tree, and none with this key had such
\* a value argument
StoredAsPassed(key) == \A p \in passed : p.arg = "v" /\ p.key # key

\* C2 amended: when key k has been inserted first with value a and later with
\* value b (and maybe again), every later search(k) finds k and returns one
\* of the values inserted with k; it returns a, the earliest, as long as no
\* split has promoted an entry with key k into an internal node; after such
\* a promotion it returns the value of the entry with key k met first on the
\* way down from the root, which may be b or a later value.  a and b are the
\* values passed, which is what the tree holds for k unless a call had an
\* argument that referred into the tree and stored another pair (C1, C10,
\* C17); of such a run only the first-met part is stated for k.
DuplicateReturnsEarliestUntilPromoted ==
    pc = "idle" =>
        \A key \in Keys :
            LET res == search(key)
            IN /\ (cnt[key] >= 2 /\ StoredAsPassed(key)) =>
                     /\ res.res = "hit"
                     /\ Deref(res) \in InsertedValues(key)
                     /\ ~Promoted(key) => Deref(res) = PassedValue(key, 1)
               /\ (cnt[key] >= 2 /\ res.res = "hit") =>
                     /\ res.node \in Reachable
                     /\ \E i \in StopsAt(res.node, key) :
                           /\ i = res.pos
                           /\ arena[res.node].keys[i] = key
                     /\ \A m \in Ancestors(res.node) :
                           \A i \in StopsAt(m, key) : arena[m].keys[i] # key

\* both cases in one tree that has split: a key inserted twice and more, not
\* promoted, whose search returns the first value, and another, promoted,
\* whose search returns the second
DuplicateWitness ==
    /\ pc = "idle"
    /\ passed = {}
    /\ ~arena[root].leaf
    /\ \E key \in Keys :
          /\ cnt[key] >= 2
          /\ ~Promoted(key)
          /\ search(key).res = "hit"
          /\ Deref(search(key)) = PassedValue(key, 1)
    /\ \E key \in Keys :
          /\ cnt[key] >= 2
          /\ Promoted(key)
          /\ search(key).res = "hit"
          /\ Deref(search(key)) = PassedValue(key, 2)

\* ---- C10 ------------------------------------------------------------------
\* C10 as claimed: between calls, search(k) returns nullptr (and does not
\* fault) for every key that was never inserted, and a pointer it returns is
\* to a slot below keyCount of its node.  A call whose key argument is a slot
\* of the leaf it shifts stores the key the shift left in that slot, which no
\* call passed.
SearchSoundness ==
    pc = "idle" =>
        \A key \in Keys :
            /\ cnt[key] = 0 => search(key) = Absent
            /\ search(key).res # "SIGSEGV"
            /\ search(key).res = "hit" =>
                   search(key).pos < arena[search(key).node].keyCount

\* ---- C3, C4, C5: the arena runs out ---------------------------------------
\* an allocation of the running (or latest) call did not fit in the arena:
\* the offset has passed the capacity in this call, or the process was killed
\* by the allocation before the offset was written
AllocationPastCapacity ==
    \/ arenaOffset > ARENA_SIZE /\ arenaOffset > atCall.arenaOffset
    \/ pc = "killed" /\ arenaOffset + SizeofNode > ARENA_SIZE

\* C3 as claimed: the insert that needs one node more than the arena holds
\* fails with ArenaExhausted, and the keys inserted before it are still found.
ExhaustionRaises ==
    AllocationPastCapacity =>
        /\ status = "ArenaExhausted"
        /\ \A key \in Keys :
              cnt[key] > (IF key = Read(k, arena) THEN 1 ELSE 0) => search(key).res = "hit"

\* C4 as claimed: when an allocation inside insert cannot be satisfied, the
\* root and every node are as they were when the call was made.
FailedInsertAtomic ==
    AllocationPastCapacity =>
        /\ root = atCall.root
        /\ \A n \in DOMAIN atCall.arena : arena[n] = atCall.arena[n]

\* C5 as claimed: the arena offset never exceeds the capacity and no node
\* lies, in part or whole, past the end of the arena.
ArenaWithinCapacity ==
    /\ arenaOffset <= ARENA_SIZE
    /\ \A n \in DOMAIN arena : n + SizeofNode <= ARENA_SIZE

\* ---- C6 -------------------------------------------------------------------
\* C6: in every state, between calls and inside an insert, every node has
\* 0 <= keyCount <= MAX_KEYS.
OccupancyBound ==
    \A n \in DOMAIN arena :
        arena[n].keyCount >= 0 /\ arena[n].keyCount <= MAX_KEYS

\* inside an insert, a full node below a parent that already holds keys is
\* about to be split
OccupancyWitness ==
    /\ pc = "split_copy"
    /\ arena[fullNode].keyCount = MAX_KEYS
    /\ arena[parent].keyCount > 0
    /\ \A n \in DOMAIN arena : arena[n].keyCount <= MAX_KEYS

\* ---- C7 -------------------------------------------------------------------
\* the reachable nodes with their depth below the root
RECURSIVE LevelsFrom(_, _)
LevelsFrom(S, d) ==
    IF S = {} \/ d > Cardinality(DOMAIN arena) THEN {}
    ELSE {<<n, d>> : n \in S}
         \cup LevelsFrom((UNION {Children(n) : n \in S}) \cap DOMAIN arena,
                         d + 1)

Levels == LevelsFrom({root}, 0)

\* C7: between calls, there is a depth h such that a reachable node is a leaf
\* exactly when it is at depth h, and every child pointer in use of an
\* internal node leads to a node (so every root-to-leaf path has length h).
BalancedDepth ==
    pc = "idle" =>
        /\ \E h \in 0..Cardinality(DOMAIN arena) :
              \A l \in Levels : arena[l[1]].leaf <=> (l[2] = h)
        /\ \A n \in Reachable : Children(n) \subseteq DOMAIN arena

\* a tree of three levels: an internal node has been split
BalancedDepthWitness ==
    /\ pc = "idle"
    /\ \E l \in Levels : l[2] = 2 /\ arena[l[1]].leaf
    /\ \A l \in Levels : arena[l[1]].leaf <=> (l[2] = 2)

\* ---- C8 -------------------------------------------------------------------
SplitSteps == {"split_alloc", "split_copy", "split_trunc", "split_shift",
               "split_link"}

\* C8: splitChild is entered with a child of exactly MAX_KEYS entries; when
\* it returns the child holds MAX_KEYS / 2 entries, the new node
\* MAX_KEYS - MAX_KEYS / 2 - 1, neither more than MAX_KEYS, and the parent
\* holds exactly one key more than when splitChild was entered.
SplitCounts ==
    [][/\ (pc = "split_alloc" /\ pc' = "split_copy") =>
              arena[arena[parent].child[idx]].keyCount = MAX_KEYS
       /\ (pc \in SplitSteps \ {"split_link"} /\ pc' \in SplitSteps) =>
              arena'[parent].keyCount = arena[parent].keyCount
       /\ pc = "split_link" =>
              /\ arena'[parent].keyCount = arena[parent].keyCount + 1
              /\ arena'[fullNode].keyCount = MAX_KEYS \div 2
              /\ arena'[newNode].keyCount = MAX_KEYS - (MAX_KEYS \div 2) - 1
              /\ arena'[fullNode].keyCount <= MAX_KEYS
              /\ arena'[newNode].keyCount <= MAX_KEYS]_vars

\* splitChild(node, pos) has just returned to insertNonFull with the two
\* halves under a parent that held a key before
SplitCountsWitness ==
    /\ pc = "split_return"
    /\ arena[node].keyCount >= 2
    /\ arena[arena[node].child[pos]].keyCount = MAX_KEYS \div 2
    /\ arena[arena[node].child[pos + 1]].keyCount
           = MAX_KEYS - (MAX_KEYS \div 2) - 1

\* ---- C9 -------------------------------------------------------------------
\* cnt after one insert of each key of S and of no other key
InsertedOnce(S) == cnt = [key \in Keys |-> IF key \in S THEN 1 ELSE 0]

\* the keys and the values in use in node n, in slot order
KeysOf(n) == [i \in 1..arena[n].keyCount |-> arena[n].keys[i - 1]]
ValsOf(n) == [i \in 1..arena[n].keyCount |-> arena[n].vals[i - 1]]

\* the latest insert was called on a tree that was a single leaf with keys
\* 1, ..., n
CalledOnLeaf(n) ==
    LET old == atCall.arena[atCall.root]
    IN /\ old.leaf
       /\ old.keyCount = n
       /\ \A i \in 0..(n - 1) : old.keys[i] = i + 1

CalledOnLeaf1234 == CalledOnLeaf(4)

\* C9: with ORDER = 2, after inserting 1, 2, 3, 4 the root is a leaf holding
\* [1,2,3,4]; inserting 5 next gives a root holding [3] over the leaves [1,2]
\* and [4,5], search(5) returns the value inserted with 5 and search(3) the
\* value inserted with 3, read from the root.
Scenario12345 ==
    (ORDER = 2 /\ pc = "idle") =>
        /\ \A n \in 1..4 :
              (InsertedOnce(1..n) /\ CalledOnLeaf(n - 1)) =>
                  /\ arena[root].leaf
                  /\ KeysOf(root) = [i \in 1..n |-> i]
        /\ (InsertedOnce(1..5) /\ CalledOnLeaf1234) =>
              /\ ~arena[root].leaf
              /\ KeysOf(root) = <<3>>
              /\ arena[arena[root].child[0]].leaf
              /\ KeysOf(arena[root].child[0]) = <<1, 2>>
              /\ arena[arena[root].child[1]].leaf
              /\ KeysOf(arena[root].child[1]) = <<4, 5>>
              /\ search(5).res = "hit"
              /\ Deref(search(5)) = PassedValue(5, 1)
              /\ search(3) = Hit(root, 0)
              /\ Deref(search(3)) = PassedValue(3, 1)

\* the state after the insert of 5 into the leaf [1,2,3,4]
Scenario12345Witness ==
    /\ ORDER = 2
    /\ pc = "idle"
    /\ InsertedOnce(1..5)
    /\ CalledOnLeaf1234
    /\ KeysOf(root) = <<3>>
    /\ search(5) = Hit(arena[root].child[1], 1)

\* ---- C11 ------------------------------------------------------------------
\* the keys in use in node n, and in the subtree below n
NodeKeys(n) == {arena[n].keys[i] : i \in 0..(arena[n].keyCount - 1)}
SubtreeKeys(n) == UNION {NodeKeys(m) : m \in ReachFrom({n})}

\* C11 as claimed: between calls, for every reachable internal node and every
\* i < keyCount, the keys below child[i] are <= keys[i] and the keys below
\* child[i+1] are >= keys[i].  A call whose key argument is a slot of the
\* parent goes on with the key a split moved into that slot and stores it
\* below a separator it exceeds.
SeparatorInvariant ==
    pc = "idle" =>
        \A n \in Reachable :
            ~arena[n].leaf =>
                \A i \in 0..(arena[n].keyCount - 1) :
                    /\ \A x \in SubtreeKeys(arena[n].child[i]) :
                          x <= arena[n].keys[i]
                    /\ \A x \in SubtreeKeys(arena[n].child[i + 1]) :
                          x >= arena[n].keys[i]

\* ---- C12 ------------------------------------------------------------------
\* C12 as claimed: between calls, the keys in use of every reachable node,
\* leaf or internal, are in non-decreasing order.  A call whose key argument
\* is a slot of the leaf it shifts ends the shift on one key and stores
\* another.
InNodeOrdering ==
    pc = "idle" =>
        \A n \in Reachable :
            \A i \in 0..(arena[n].keyCount - 2) :
                arena[n].keys[i] <= arena[n].keys[i + 1]

\* ---- C13 ------------------------------------------------------------------
\* C13: splitChild(parent, idx) is entered only with parent->child[idx] full
\* and parent not full, insertNonFull only with a node that is not full; so
\* the parent has a free slot for the promoted key and the last key slot and
\* child slot written are below MAX_KEYS and at most MAX_KEYS.
PreemptiveSplitting ==
    /\ pc = "split_alloc" =>
          /\ parent \in DOMAIN arena
          /\ arena[parent].child[idx] \in DOMAIN arena
          /\ arena[arena[parent].child[idx]].keyCount = MAX_KEYS
          /\ arena[parent].keyCount < MAX_KEYS
    /\ pc \in SplitSteps =>
          /\ idx <= arena[parent].keyCount
          /\ arena[parent].keyCount <= MAX_KEYS - 1
          /\ arena[parent].keyCount + 1 <= MAX_KEYS
    /\ pc = "insertNonFull" =>
          /\ node \in DOMAIN arena
          /\ arena[node].keyCount < MAX_KEYS
          /\ arena[node].keyCount <= MAX_KEYS - 1

\* insertNonFull is about to split a full child of a node with one free slot
PreemptiveSplittingWitness ==
    /\ pc = "split_alloc"
    /\ ret = "insertNonFull"
    /\ arena[parent].keyCount = MAX_KEYS - 1
    /\ arena[arena[parent].child[idx]].keyCount = MAX_KEYS

\* ---- C14 ------------------------------------------------------------------
\* the number of levels of the tree of arena ar below and including node n
RECURSIVE HeightIn(_, _)
HeightIn(ar, n) ==
    IF n \notin DOMAIN ar THEN 0
    ELSE IF ar[n].leaf THEN 1
    ELSE 1 + HeightIn(ar, ar[n].child[0])

\* the root was full when the latest insert was called
CalledOnFullRoot == atCall.arena[atCall.root].keyCount = MAX_KEYS

\* C14: root changes only in an insert called on a full root, once, to a new
\* internal node; when that insert returns the new root has the old root as
\* child[0] and holds one key and the tree is one level higher; an insert
\* called on a root that is not full returns with the same root and height.
RootGrowth ==
    [][/\ root' # root =>
              /\ pc = "insert_setroot"
              /\ CalledOnFullRoot
              /\ root = atCall.root
              /\ root' \notin DOMAIN atCall.arena
              /\ ~arena[root'].leaf
       /\ (pc = "insertNonFull" /\ pc' = "idle") =>
              IF CalledOnFullRoot
              THEN /\ root' # atCall.root
                   /\ ~arena'[root'].leaf
                   /\ arena'[root'].child[0] = atCall.root
                   /\ arena'[root'].keyCount = 1
                   /\ HeightIn(arena', root')
                          = HeightIn(atCall.arena, atCall.root) + 1
              ELSE /\ root' = atCall.root
                   /\ HeightIn(arena', root')
                          = HeightIn(atCall.arena, atCall.root)]_vars

\* an insert called on a full internal root has returned: three levels
RootGrowthWitness ==
    /\ pc = "idle"
    /\ CalledOnFullRoot
    /\ ~atCall.arena[atCall.root].leaf
    /\ root # atCall.root
    /\ arena[root].child[0] = atCall.root
    /\ arena[root].keyCount = 1
    /\ HeightIn(arena, root) = 3

\* ---- C15 ------------------------------------------------------------------
\* C15: when splitChild(parent, idx) returns, compared with the arena at its
\* entry: the new node holds the child's entries mid+1..MAX_KEYS-1 in order
\* (and, for an internal child, its children mid+1..MAX_KEYS) and has the
\* child's leaf flag; parent entry idx is the child's entry mid; the new node
\* is parent->child[idx+1]; the parent's entries idx.. and children idx+1..
\* are one slot to the right; the parent's children 0..idx, its entries below
\* idx and the child's entries below mid are unchanged.
SplitContents ==
    [][pc = "split_link" =>
          LET m == MAX_KEYS \div 2
              rc == MAX_KEYS - m - 1
              oc == atSplit[fullNode]
              op == atSplit[parent]
              np == arena'[parent]
              nn == arena'[newNode]
          IN /\ op.child[idx] = fullNode
             /\ oc.keyCount = MAX_KEYS
             /\ newNode \notin DOMAIN atSplit
             /\ \A j \in 0..(rc - 1) :
                   /\ nn.keys[j] = oc.keys[m + 1 + j]
                   /\ nn.vals[j] = oc.vals[m + 1 + j]
             /\ ~oc.leaf => \A j \in 0..rc : nn.child[j] = oc.child[m + 1 + j]
             /\ nn.leaf = oc.leaf
             /\ np.keys[idx] = oc.keys[m]
             /\ np.vals[idx] = oc.vals[m]
             /\ np.child[idx + 1] = newNode
             /\ \A j \in idx..(op.keyCount - 1) :
                   /\ np.keys[j + 1] = op.keys[j]
                   /\ np.vals[j + 1] = op.vals[j]
             /\ \A j \in (idx + 1)..op.keyCount : np.child[j + 1] = op.child[j]
             /\ \A j \in 0..idx : np.child[j] = op.child[j]
             /\ \A j \in 0..(idx - 1) :
                   /\ np.keys[j] = op.keys[j]
                   /\ np.vals[j] = op.vals[j]
             /\ \A j \in 0..(m - 1) :
                   /\ arena'[fullNode].keys[j] = oc.keys[j]
                   /\ arena'[fullNode].vals[j] = oc.vals[j]]_vars

\* the last step of a split below a parent whose entry at idx had to move
\* right, the new node already filled from the upper half of the child
SplitContentsWitness ==
    /\ pc = "split_link"
    /\ idx < arena[parent].keyCount
    /\ atSplit[fullNode].keyCount = MAX_KEYS
    /\ arena[parent].keys[idx + 1] = atSplit[parent].keys[idx]
    /\ arena[newNode].keyCount = MAX_KEYS - (MAX_KEYS \div 2) - 1

\* ---- C16: findPos on its own ------------------------------------------------
\* the instantiations of ORDER for which findPos is run on its own: MAX_KEYS
\* of 2, 4, 6 and 8, so that the unrolled loop makes 0, 1 and 2 rounds
FindPosOrders == {1, 2, 3, 4}

\* the non-decreasing sequences of n keys that are >= lo
RECURSIVE SortedSeqs(_, _)
SortedSeqs(n, lo) ==
    IF n = 0 THEN {<<>>}
    ELSE UNION {{<<x>> \o t : t \in SortedSeqs(n - 1, x)} : x \in lo..MaxKey}

\* the number of entries of sq[1..i] equal to sq[i]
Occurrence(sq, i) == Cardinality({j \in 1..i : sq[j] = sq[i]})

\* a leaf that holds the keys of sq, as inserts into an empty tree leave it,
\* over arena memory whose unwritten slots all hold g
LeafOf(sq, g) ==
    [leaf |-> TRUE, keyCount |-> Len(sq),
     keys |-> [i \in 0..(MAX_KEYS - 1) |->
                  IF i < Len(sq) THEN sq[i + 1] ELSE g],
     vals |-> [i \in 0..(MAX_KEYS - 1) |->
                  IF i < Len(sq) THEN ValueOf(sq[i + 1], Occurrence(sq, i + 1))
                  ELSE g],
     child |-> [i \in 0..(MAX_CHILD - 1) |-> NULL]]

\* a tree that is one leaf with 0..MAX_KEYS sorted keys; the memory aligned_alloc
\* returned is not cleared, so the unwritten slots hold any value; findPos is
\* about to be called with key k
InitFindPos ==
    /\ ORDER \in FindPosOrders
    /\ \E n \in 0..MAX_KEYS :
          \E sq \in SortedSeqs(n, 1) :
              \E g \in Keys \cup {UNINIT} :
                  /\ arena = (0 :> LeafOf(sq, g))
                  /\ cnt = [key \in Keys |->
                               Cardinality({j \in 1..n : sq[j] = key})]
    /\ passed = {}
    /\ arenaOffset = SizeofNode
    /\ root = 0
    /\ pc = "findPos"
    /\ status = "ok"
    /\ k \in {Caller(x) : x \in 0..(MaxKey + 1)}
    /\ v = NoArg
    /\ r = NULL /\ s = NULL /\ node = 0 /\ pos = 0
    /\ parent = NULL /\ idx = 0 /\ fullNode = NULL /\ newNode = NULL
    /\ ret = "none"
    /\ atCall = [root |-> 0, arena |-> arena, arenaOffset |-> SizeofNode]
    /\ atSplit = <<>>
    /\ cur = NULL
    /\ found = NoResult
    /\ trail = <<>>
    /\ QueueConstructed

\* int pos = findPos(node, k)
FindPosCall ==
    /\ pc = "findPos"
    /\ pos' = findPos(arena[node], Read(k, arena))
    /\ pc' = "findPos_done"
    /\ UNCHANGED <<ORDER, arena, arenaOffset, root, status, k, v, r, s, node,
                   parent, idx, fullNode, newNode, ret, cnt, passed, atCall, atSplit,
                   cur, found, trail>>
    /\ UNCHANGED queueVars

NextFindPos == FindPosCall

SpecFindPos == InitFindPos /\ [][NextFindPos]_vars

\* the smallest index below keyCount whose key is >= key, else keyCount
LowerBound(nd, key) ==
    LET S == {i \in 0..(nd.keyCount - 1) : nd.keys[i] >= key}
    IN IF S = {} THEN nd.keyCount
       ELSE CHOOSE i \in S : \A j \in S : i <= j

\* C16: on a node with sorted keys, findPos returns the smallest index
\* i < keyCount with keys[i] >= k, or keyCount; that is the index a plain
\* left-to-right scan returns, for every keyCount in 0..MAX_KEYS; and no slot
\* at or above keyCount is read.
FindPosLowerBound ==
    pc = "findPos_done" =>
        /\ pos \in 0..arena[node].keyCount
        /\ pos = LowerBound(arena[node], Read(k, arena))
        /\ pos = FindPosTail(arena[node], Read(k, arena), 0)
        /\ \A i \in findPosReads(arena[node], Read(k, arena)) : i < arena[node].keyCount

\* six keys: one unrolled round and two keys for the second loop, no key
\* >= k, and the slot at keyCount holds a value >= k
FindPosWitness ==
    /\ pc = "findPos_done"
    /\ arena[node].keyCount = 6
    /\ MAX_KEYS = 8
    /\ pos = 6
    /\ arena[node].keys[6] >= Read(k, arena)
    /\ arena[node].keys[0] < arena[node].keys[5]

\* ---- C17: duplicates accumulate ---------------------------------------------
\* the in-use slots of the nodes reachable from the root
Slots == {sl \in Reachable \X (0..(MAX_KEYS - 1)) : sl[2] < arena[sl[1]].keyCount}

\* the number of in-use slots that hold the entry (key, val)
EntryCount(key, val) ==
    Cardinality({sl \in Slots : /\ arena[sl[1]].keys[sl[2]] = key
                                /\ arena[sl[1]].vals[sl[2]] = val})

\* the number of insert calls made so far that passed the pair (key, val)
PassedCount(key, val) ==
    Cardinality({c \in 1..cnt[key] : PassedValue(key, c) = val})

\* C17 as claimed: after any sequence of inserts the entries in the first
\* keyCount slots of the reachable nodes are, as a multiset, the inserted
\* pairs: every pair inserted so far is held as often as it was passed,
\* duplicates included, and there are as many entries as insert calls, so each
\* call added exactly one and none was overwritten, lost or copied twice.  A
\* call whose argument is a slot of the leaf it shifts stores another pair
\* than the one it was passed.
DuplicatesAccumulate ==
    pc = "idle" =>
        /\ Cardinality(Slots) = TotalInserts
        /\ \A key \in Keys : \A c \in 1..cnt[key] :
               EntryCount(key, PassedValue(key, c)) =
                   PassedCount(key, PassedValue(key, c))

\* ---- C18: arena bump discipline ---------------------------------------------
\* two nodes of sz bytes at n and m, which occupy the bytes n..(n + sz - 1)
\* and m..(m + sz - 1) of the arena, share a byte
Overlap(n, m, sz) == n < m + sz /\ m < n + sz

\* the nodes allocated so far: the first one at offset 0, where the offset
\* started; the offset a whole number of nodes; every node aligned and below
\* the offset; the nodes pairwise disjoint
RegionsDisjoint ==
    \A sz \in {SizeofNode} :
        /\ 0 \in DOMAIN arena
        /\ arenaOffset % sz = 0
        /\ \A n \in DOMAIN arena :
              /\ n % CACHE_LINE = 0
              /\ n + sz <= arenaOffset
              /\ \A m \in DOMAIN arena : n < m => ~Overlap(n, m, sz)

\* one step: the offset stays or grows by sizeof(Node); a node that appears
\* lies at the old offset, which no earlier node reaches; no node goes away
BumpStep ==
    /\ arenaOffset' >= arenaOffset
    /\ arenaOffset' # arenaOffset => arenaOffset' = arenaOffset + SizeofNode
    /\ DOMAIN arena \subseteq DOMAIN arena'
    /\ \A n \in DOMAIN arena' \ DOMAIN arena :
          /\ n = arenaOffset
          /\ arenaOffset' = n + SizeofNode
          /\ \A m \in DOMAIN arena : ~Overlap(m, n, SizeofNode)

\* C18: the first node, the root the constructor allocates, lies at offset 0
\* of the arena; the offset never decreases and every allocation advances it
\* by exactly sizeof(Node); every node starts at a multiple of 64 bytes from
\* the arena base and no two nodes share a byte.
ArenaBumpDiscipline ==
    [][BumpStep /\ RegionsDisjoint']_vars

\* five nodes of 64 bytes allocated one after the other
ArenaBumpWitness ==
    /\ ORDER = 1
    /\ DOMAIN arena = {0, 64, 128, 192, 256}
    /\ arenaOffset = 320

\* ---- C19: termination and single pass ---------------------------------------
IsVisit(e) == e.op = "visit"
IsSplit(e) == e.op = "split"

\* the depths at which node n hangs below the root
LevelsOf(n) == {l[2] : l \in {x \in Levels : x[1] = n}}

\* the latest call, running or returned: the i-th node it visited is at depth
\* i - 1, only the last node visited may be a leaf, the cursor is the last
\* node visited, and the nodes it split are at strictly increasing depths
SinglePass ==
    pc # "killed" =>
        LET visits == SelectSeq(trail, IsVisit)
            splits == SelectSeq(trail, IsSplit)
        IN /\ \A i \in 1..Len(visits) : LevelsOf(visits[i].node) = {i - 1}
           /\ \A i \in 1..(Len(visits) - 1) : ~arena[visits[i].node].leaf
           /\ pc \in {"insertNonFull", "split_return"} =>
                  node = visits[Len(visits)].node
           /\ pc = "search" => cur = visits[Len(visits)].node
           /\ \A i, j \in 1..Len(splits) :
                  i < j => \E a \in LevelsOf(splits[i].node) :
                               \E b \in LevelsOf(splits[j].node) : a < b
           /\ \A i \in 1..Len(splits) :
                  Cardinality(LevelsOf(splits[i].node)) = 1

\* C19: every call of search and of insert comes to an end; search visits one
\* node per level from the root down and returns at the latest in a leaf;
\* insert visits at most one node per level, never one level twice, and splits
\* at most one node per level, the old root included.
SinglePassAndTermination ==
    /\ []SinglePass
    /\ (pc \notin {"idle", "killed"}) ~> (pc \in {"idle", "killed"})

\* a search that went down three levels to its hit, in a tree whose latest
\* insert split the root and grew it to three levels
SinglePassWitness ==
    /\ pc = "idle"
    /\ found.ptr.res = "hit"
    /\ Len(trail) = 3
    /\ CalledOnFullRoot
    /\ HeightIn(atCall.arena, atCall.root) = 2

\* ---- C20: search is read-only -----------------------------------------------
\* the arguments and locals of insert(), insertNonFull(), splitChild() and
\* search() hold nothing: no call is running
LocalsDead ==
    /\ k = NoArg /\ v = NoArg
    /\ r = NULL /\ s = NULL
    /\ node = NULL /\ pos = 0
    /\ parent = NULL /\ idx = 0 /\ fullNode = NULL /\ newNode = NULL
    /\ ret = "none"
    /\ cur = NULL

\* one step: a step of search() leaves root, arenaOffset and every field of
\* every node as they are; a search that returns, returns what the tree and
\* the key determine, which is what the search before it returned for the
\* same key; a call that returns leaves no local behind
SearchFrame ==
    /\ (pc = "search" \/ pc' = "search") =>
           /\ root' = root
           /\ arenaOffset' = arenaOffset
           /\ arena' = arena
    /\ (pc = "search" /\ pc' = "idle") =>
           /\ found'.key = Read(k, arena)
           /\ found'.ptr = search(Read(k, arena))
           /\ found.key = Read(k, arena) => found'.ptr = found.ptr
    /\ pc' = "idle" => LocalsDead'

\* C20: a search call changes neither root, nor arenaOffset, nor the leaf
\* flag, keyCount, keys, vals or child of any node; two searches for the same
\* key with no insert in between return the same result; between calls no
\* cursor or other traversal state is kept.
SearchReadOnly == [][SearchFrame]_vars

\* the second of two searches for a key, below the root, the first having
\* returned a hit
SearchReadOnlyWitness ==
    /\ pc = "search"
    /\ found.key = Read(k, arena)
    /\ found.ptr.res = "hit"
    /\ cur # root
    /\ Len(trail) = 3

\* ---- C21: no null child is followed -----------------------------------------
\* the child pointers in slots 0..keyCount of internal node n all lead to nodes
ChildrenLinked(n) ==
    arena[n].leaf \/ \A i \in 0..arena[n].keyCount :
                         arena[n].child[i] \in DOMAIN arena

\* C21 as claimed: in every state during or between inserts, every internal
\* node reachable from the root has non-null children in slots 0..keyCount,
\* the new root between its creation and its first split included.
NoNullChildAlways == \A n \in Reachable : ChildrenLinked(n)

\* C21, amended: the statement holds in every state but one, the state
\* between root = s and s->child[0] = r, where the new root is internal with
\* keyCount 0 and child[0] null and every other node is linked; no pointer is
\* followed in that state, and every pointer that is followed, by
\* insertNonFull, splitChild or search, leads to a node.
NoNullChildFollowed ==
    /\ pc # "insert_link" => \A n \in Reachable : ChildrenLinked(n)
    /\ pc = "insert_link" =>
           /\ root = s
           /\ ~arena[s].leaf /\ arena[s].keyCount = 0 /\ arena[s].child[0] = NULL
           /\ r \in DOMAIN arena
           /\ \A n \in ReachFrom({r}) : ChildrenLinked(n)
    /\ (pc = "insertNonFull" /\ ~arena[node].leaf) =>
           arena[node].child[findPos(arena[node], Read(k, arena))] \in DOMAIN arena
    /\ pc = "split_return" =>
           arena[node].child[AfterSplitPos(arena[node], pos, Read(k, arena))] \in DOMAIN arena
    /\ pc = "split_alloc" => arena[parent].child[idx] \in DOMAIN arena
    /\ pc = "idle" => \A key \in 0..(MaxKey + 1) : search(key) # Fault

\* insertNonFull is about to follow a child of the root that the running
\* insert has just created and split
NoNullChildWitness ==
    /\ pc = "insertNonFull"
    /\ node = root
    /\ s = root
    /\ arena[root].child[0] = atCall.root
    /\ arena[root].keyCount = 1

\* ---- C22: tree shape, no leaked node ----------------------------------------
\* the child slots in use, of any allocated node, that point to node n
ParentSlots(n) ==
    {sl \in (DOMAIN arena) \X (0..(MAX_CHILD - 1)) :
        /\ ~arena[sl[1]].leaf
        /\ sl[2] <= arena[sl[1]].keyCount
        /\ arena[sl[1]].child[sl[2]] = n}

\* C22: after construction and after every insert, every node allocated from
\* the arena is reachable from the root through child slots 0..keyCount by
\* exactly one path: the root hangs in no slot, every other node hangs in
\* exactly one slot and at one depth; and the number of reachable nodes is
\* arenaOffset / sizeof(Node).
TreeShape ==
    pc = "idle" =>
        /\ Reachable = DOMAIN arena
        /\ ParentSlots(root) = {}
        /\ \A n \in DOMAIN arena \ {root} : Cardinality(ParentSlots(n)) = 1
        /\ \A n \in DOMAIN arena : Cardinality(LevelsOf(n)) = 1
        /\ Cardinality(Reachable) * SizeofNode = arenaOffset

\* a tree of three levels and six nodes or more: an earlier root is now a
\* node of the middle level that holds two children of its own
TreeShapeWitness ==
    /\ pc = "idle"
    /\ Cardinality(DOMAIN arena) >= 6
    /\ \E n \in DOMAIN arena :
          /\ LevelsOf(n) = {1}
          /\ n = atCall.root
          /\ Cardinality(Children(n)) = 2
          /\ \A c \in Children(n) : LevelsOf(c) = {2}

\* ---- C23: minimum occupancy -------------------------------------------------
\* the least number of keys of a node that is not the root, as claimed
MinKeys == ORDER - 1

\* C23 as claimed: after any completed insert every node other than the root
\* holds at least ORDER - 1 keys, an internal root holds at least one key, and
\* only a leaf root may be empty.
MinOccupancyOnlyRootEmpty ==
    pc = "idle" =>
        /\ \A n \in Reachable \ {root} : arena[n].keyCount >= MinKeys
        /\ ~arena[root].leaf => arena[root].keyCount >= 1
        /\ \A n \in Reachable :
               arena[n].keyCount = 0 => (n = root /\ arena[root].leaf)

\* C23, amended: after any completed insert every node other than the root
\* holds at least ORDER - 1 = MAX_KEYS - MAX_KEYS/2 - 1 keys and an internal
\* root holds at least one key; for ORDER >= 2 only a leaf root may be empty,
\* for ORDER = 1 the bound is 0 and a node that is not the root may be empty
\* (the new node of a split).
MinOccupancy ==
    pc = "idle" =>
        /\ MinKeys = MAX_KEYS - (MAX_KEYS \div 2) - 1
        /\ \A n \in Reachable \ {root} : arena[n].keyCount >= MinKeys
        /\ ~arena[root].leaf => arena[root].keyCount >= 1
        /\ ORDER >= 2 =>
               \A n \in Reachable :
                   arena[n].keyCount = 0 => (n = root /\ arena[root].leaf)

\* ORDER = 2: a node below the root that holds exactly ORDER - 1 = 1 key, next
\* to a sibling that has grown to three
MinOccupancyWitness ==
    /\ pc = "idle"
    /\ ORDER = 2
    /\ \E n, m \in Reachable \ {root} :
          arena[n].keyCount = MinKeys /\ arena[m].keyCount = 3

\* ---- C24: SafeQueue delivers every item once, in order ----------------------
\* the items removed so far, in the order of their removal
PoppedItems == [j \in 1..Len(popped) |-> popped[j].item]

\* the items consumer c has been given by pop(), in order
ReturnedTo(c) ==
    LET Mine(e) == e.by = c
        mine == SelectSeq(popped, Mine)
    IN [j \in 1..Len(mine) |-> mine[j].item]

\* the items removed followed by the items queued are the items pushed, which
\* are pairwise distinct; a consumer holds the item it removed last; a
\* consumer that was told SYSTEM_STOPPED was told so with terminated_ set,
\* the queue empty and every item delivered
QueueDelivery ==
    /\ pushed = [j \in 1..Len(pushed) |-> Message(j - 1)]
    /\ PoppedItems \o queue_ = pushed
    /\ \A c \in Consumers :
          /\ message[c] \notin {NoMessage, SYSTEM_STOPPED} =>
                 /\ ReturnedTo(c) # <<>>
                 /\ message[c] = ReturnedTo(c)[Len(ReturnedTo(c))]
          /\ message[c] = SYSTEM_STOPPED =>
                 /\ terminated_ /\ queue_ = <<>>
                 /\ PoppedItems = pushed /\ Len(pushed) = NumItems
          /\ tpc[c] = "done" => message[c] = SYSTEM_STOPPED
    /\ \A t \in DOMAIN tpc : tpc[t] # "killed"

\* one step: an item is removed only from the front of a queue that is not
\* empty and is returned to the consumer that removed it; SYSTEM_STOPPED is
\* returned only with terminated_ set and the queue empty; the queue loses
\* an item only to a pop
PopStep ==
    /\ popped' # popped =>
           /\ queue_ # <<>>
           /\ queue_' = Tail(queue_)
           /\ \E c \in Consumers :
                 /\ popped' = Append(popped, [by |-> c, item |-> Head(queue_)])
                 /\ message'[c] = Head(queue_)
    /\ \A c \in Consumers :
           message'[c] # message[c] =>
               \/ message'[c] = SYSTEM_STOPPED /\ terminated_ /\ queue_ = <<>>
               \/ popped' = Append(popped, [by |-> c, item |-> message'[c]])
    /\ (popped' = popped /\ queue_' # queue_) =>
           /\ queue_' = Append(queue_, Message(loop_i))
           /\ pushed' = Append(pushed, Message(loop_i))

\* C24: under every interleaving of the producer and the consumers, every
\* pushed item is returned by exactly one pop, items are removed in the order
\* they were pushed, pop never removes from an empty queue, and pop returns
\* "SYSTEM_STOPPED" only when terminated_ is set and the queue is empty, so
\* the items queued at terminate() are delivered before any consumer stops.
ExactlyOnceFIFO == []QueueDelivery /\ [][PopStep]_vars

\* terminate() has been called with an item still queued, after each of the
\* two consumers has removed an item
ExactlyOnceFIFOWitness ==
    /\ terminated_
    /\ queue_ # <<>>
    /\ \A c \in Consumers : ReturnedTo(c) # <<>>

\* ---- C25: SafeQueue shutdown ------------------------------------------------
\* a consumer that waits is owed no wakeup: nothing is queued that nobody is
\* up to take, and terminated_ is not set
NoLostWakeup ==
    /\ terminated_ => waiting = {}
    /\ queue_ # <<>> => \E c \in Consumers : c \notin waiting /\ tpc[c] # "done"

\* every thread has returned and main has joined all three
AllJoined ==
    /\ tpc["main"] = "finished"
    /\ \A t \in Threads : tpc[t] = "done"
    /\ \A c \in Consumers : message[c] = SYSTEM_STOPPED
    /\ Len(pushed) = NumItems

\* C25: under fair scheduling the producer pushes its items and calls
\* terminate(); from then on every consumer, blocked in the wait of pop() or
\* not, receives "SYSTEM_STOPPED" and leaves its loop; no wakeup is lost; and
\* main joins the producer and both consumers.
ShutdownLiveness ==
    /\ []NoLostWakeup
    /\ <>terminated_
    /\ \A c \in Consumers :
          terminated_ ~> (message[c] = SYSTEM_STOPPED /\ tpc[c] = "done")
    /\ <>[]AllJoined

\* terminate() is about to set terminated_ while both consumers are blocked
\* in the wait of pop()
ShutdownWitness ==
    /\ tpc["producer"] = "terminate_locked"
    /\ waiting = Consumers
    /\ Len(popped) = NumItems

====
